---------------------------- MODULE Spec2Model ----------------------------
(***************************************************************************)
(* Model of src/affordability_analysis.py: the normalisation of the        *)
(* scraped listing table and of the census income table, the left join on  *)
(* Zipcode, and the per-listing and per-zipcode affordability metrics.     *)
(*                                                                         *)
(* A table (pandas DataFrame) is a sequence of rows, a row a record of     *)
(* cells.  A cell is a record [k, s, n, d]:                                *)
(*   k = "text"   a Python str, s its characters                           *)
(*   k = "num"    a finite number, the rational n / d (d > 0, reduced)     *)
(*   k = "nan"    NaN (pandas' null)                                       *)
(*   k = "inf"    a non-finite quotient x / 0, n its sign                  *)
(*   k = "absent" the column does not exist in the table                   *)
(*   k = "err"    the conversion of that cell raised an exception          *)
(* The caller's tables are objects that the functions receive by           *)
(* reference: housing and income hold their current content.               *)
(***************************************************************************)
EXTENDS Integers, Sequences, FiniteSets, TLC

VARIABLES housing, income, orig, rets

vars == <<housing, income, orig, rets>>

(***************************************************************************)
(* Bounds of the model.                                                    *)
(***************************************************************************)
MaxListings == 2
MaxIncomes == 2
MaxCalls == 2

----------------------------------------------------------------------------
(* Cells *)

Text(s) == [k |-> "text", s |-> s, n |-> 0, d |-> 1]
NaN == [k |-> "nan", s |-> <<>>, n |-> 0, d |-> 1]
Inf(sign) == [k |-> "inf", s |-> <<>>, n |-> sign, d |-> 1]
Absent == [k |-> "absent", s |-> <<>>, n |-> 0, d |-> 1]
Err == [k |-> "err", s |-> <<>>, n |-> 0, d |-> 1]

Abs(x) == IF x < 0 THEN -x ELSE x

RECURSIVE GCD(_, _)
GCD(a, b) == IF b = 0 THEN a ELSE GCD(b, a % b)

\* the number p / q, q > 0, in lowest terms
Rat(p, q) ==
    LET g == GCD(Abs(p), q)
    IN  [k |-> "num", s |-> <<>>, n |-> p \div g, d |-> q \div g]

Num(x) == Rat(x, 1)

IsNum(c) == c.k = "num"

\* float arithmetic on cells already numeric; NaN propagates
Sub(a, b) ==
    IF IsNum(a) /\ IsNum(b) THEN Rat(a.n * b.d - b.n * a.d, a.d * b.d) ELSE NaN

Mul(a, b) ==
    IF IsNum(a) /\ IsNum(b) THEN Rat(a.n * b.n, a.d * b.d) ELSE NaN

\* float division: x / 0 is +-inf, 0 / 0 and anything with NaN is NaN
Div(a, b) ==
    IF ~(IsNum(a) /\ IsNum(b)) THEN NaN
    ELSE IF b.n = 0 THEN (IF a.n = 0 THEN NaN ELSE Inf(IF a.n > 0 THEN 1 ELSE -1))
    ELSE IF b.n > 0 THEN Rat(a.n * b.d, a.d * b.n)
    ELSE Rat(-(a.n * b.d), a.d * (-b.n))

\* a < b and a > b on floats: every comparison with NaN is False
Less(a, b) == IsNum(a) /\ IsNum(b) /\ a.n * b.d < b.n * a.d
Greater(a, b) == Less(b, a)

----------------------------------------------------------------------------
(* Strings *)

Digits == {"0", "1", "2", "3", "4", "5", "6", "7", "8", "9"}

DigitVal ==
    "0" :> 0 @@ "1" :> 1 @@ "2" :> 2 @@ "3" :> 3 @@ "4" :> 4 @@
    "5" :> 5 @@ "6" :> 6 @@ "7" :> 7 @@ "8" :> 8 @@ "9" :> 9

\* str.replace / Series.replace(regex=True) of a one-character class by ""
StripChars(s, cs) == SelectSeq(s, LAMBDA c : c \notin cs)

IsDigits(s) == Len(s) > 0 /\ \A i \in 1..Len(s) : s[i] \in Digits

RECURSIVE ParseNat(_)
ParseNat(s) ==
    IF s = <<>> THEN 0
    ELSE 10 * ParseNat(SubSeq(s, 1, Len(s) - 1)) + DigitVal[s[Len(s)]]

\* float(s) / int(s) of a str: a digit string parses, anything else raises
ParseNumber(s) == IF IsDigits(s) THEN Num(ParseNat(s)) ELSE Err

\* a column (sequence of cells) holds a cell whose conversion raised
Raised(col) == \E i \in DOMAIN col : col[i].k = "err"

----------------------------------------------------------------------------
(* preprocess_scraped_listings *)

\* util.format_price: currency text to number.  On a value that is already
\* a number (not a price string) it either returns it or raises: onNumber.
FormatPriceOnNumber == {"same", "raise"}

format_price(c, onNumber) ==
    CASE c.k = "text" -> ParseNumber(StripChars(c.s, {"$", ","}))
      [] c.k = "num" -> IF onNumber = "same" THEN c ELSE Err
      [] OTHER -> Err

\* mutant: errors="raise" in place of errors="coerce"
to_numeric_raise(c) ==
    CASE c.k = "text" -> ParseNumber(c.s)
      [] OTHER -> c

\* pd.to_numeric(errors="coerce"): what does not parse becomes NaN
to_numeric_coerce(c) ==
    CASE c.k = "text" -> (IF IsDigits(c.s) THEN Num(ParseNat(c.s)) ELSE NaN)
      [] OTHER -> c

\* .replace("[,]", "", regex=True): strings lose their commas
replace_comma(c) == IF c.k = "text" THEN Text(StripChars(c.s, {","})) ELSE c

\* .astype(float)
astype_float(c) == IF c.k = "text" THEN ParseNumber(c.s) ELSE c

\* mutant: a Zipcode that does not parse becomes NaN instead of raising
astype_int_coerce(c) ==
    CASE c.k = "text" -> (IF IsDigits(c.s) THEN Num(ParseNat(c.s)) ELSE NaN)
      [] c.k = "num" -> Num(c.n \div c.d)
      [] OTHER -> c

\* .astype(int): NaN cannot be converted
astype_int(c) ==
    CASE c.k = "text" -> ParseNumber(c.s)
      [] c.k = "num" -> Num(c.n \div c.d)
      [] OTHER -> Err

SetPrice(df, col) == [i \in DOMAIN df |-> [df[i] EXCEPT !.Price = col[i]]]
SetBedrooms(df) ==
    [i \in DOMAIN df |-> [df[i] EXCEPT !.Bedrooms = to_numeric_coerce(@)]]
SetBathrooms(df) ==
    [i \in DOMAIN df |-> [df[i] EXCEPT !.Bathrooms = to_numeric_coerce(@)]]
SetSqFt(df, col) == [i \in DOMAIN df |-> [df[i] EXCEPT !.SqFt = col[i]]]
SetPricePerSqFt(df) ==
    [i \in DOMAIN df |->
        [df[i] EXCEPT !.Price_Per_SqFt = Div(df[i].Price, df[i].SqFt)]]
SetZipcode(df, col) == [i \in DOMAIN df |-> [df[i] EXCEPT !.Zipcode = col[i]]]

\* The columns are assigned one after the other on the caller's table; a
\* conversion that raises leaves the earlier assignments in place.
\* status: "ok" | "error"; df: the caller's table afterwards; out: the
\* returned table (the same object as df).
preprocess_scraped_listings(df_housing, onNumber) ==
    LET price == [i \in DOMAIN df_housing |-> format_price(df_housing[i].Price, onNumber)]
        s1 == SetPrice(df_housing, price)
        s3 == SetBathrooms(SetBedrooms(s1))
        sqft == [i \in DOMAIN s3 |-> astype_float(replace_comma(s3[i].SqFt))]
        s5 == SetPricePerSqFt(SetSqFt(s3, sqft))
        zip == [i \in DOMAIN s5 |-> astype_int(s5[i].Zipcode)]
        s6 == SetZipcode(s5, zip)
    IN  IF Raised(price) THEN [status |-> "error", df |-> df_housing, out |-> <<>>]
        ELSE IF Raised(sqft) THEN [status |-> "error", df |-> s3, out |-> <<>>]
        ELSE IF Raised(zip) THEN [status |-> "error", df |-> s5, out |-> <<>>]
        ELSE [status |-> "ok", df |-> s6, out |-> s6]

----------------------------------------------------------------------------
(* preprocess_income_data *)

RECURSIVE RStrip(_)
RStrip(s) ==
    IF s # <<>> /\ s[Len(s)] = " " THEN RStrip(SubSeq(s, 1, Len(s) - 1)) ELSE s

\* the characters after the last blank of s
RECURSIVE LastToken(_)
LastToken(s) ==
    IF s = <<>> \/ s[Len(s)] = " " THEN <<>>
    ELSE Append(LastToken(SubSeq(s, 1, Len(s) - 1)), s[Len(s)])

\* lambda x: int(x.split()[-1].strip()); [-1] of an empty split raises
label_zipcode(c) ==
    LET t == RStrip(c.s)
    IN  IF c.k # "text" \/ t = <<>> THEN Err ELSE ParseNumber(LastToken(t))

NoData == Text(<<"-">>)

\* .replace("[,]", "").replace("[+]", "").replace("[-]", ""), regex=True
clean_income(c) ==
    IF c.k = "text"
    THEN Text(StripChars(StripChars(StripChars(c.s, {","}), {"+"}), {"-"}))
    ELSE c

\* df_income["Zipcode"] = ... on the caller's table
AddZipcode(df, col) == [i \in DOMAIN df |-> [df[i] EXCEPT !.Zipcode = col[i]]]

\* the two columns of interest, the income column renamed
SelectColumns(df) ==
    [i \in DOMAIN df |->
        [Household_Median_Income |-> df[i].Estimate_Median_Income,
         Zipcode |-> df[i].Zipcode]]

\* mutant: the no-data rows are not filtered out
DropNothing(df) == df

\* df_income[df_income.Household_Median_Income != "-"]
DropNoData(df) == SelectSeq(df, LAMBDA r : r.Household_Median_Income # NoData)

SetIncome(df, col) ==
    [i \in DOMAIN df |-> [df[i] EXCEPT !.Household_Median_Income = col[i]]]

\* status, df (the caller's table afterwards: it gains the Zipcode column),
\* out (the returned table, a new one)
preprocess_income_data(df_income) ==
    LET zip == [i \in DOMAIN df_income |-> label_zipcode(df_income[i].Geographic_Area_Name)]
        s1 == AddZipcode(df_income, zip)
        kept == DropNoData(SelectColumns(s1))
        inc == [i \in DOMAIN kept |->
                   astype_float(clean_income(kept[i].Household_Median_Income))]
    IN  IF Raised(zip) THEN [status |-> "error", df |-> df_income, out |-> <<>>]
        ELSE IF Raised(inc) THEN [status |-> "error", df |-> s1, out |-> <<>>]
        ELSE [status |-> "ok", df |-> s1, out |-> SetIncome(kept, inc)]

----------------------------------------------------------------------------
(* DataFrame.merge(how="left", on="Zipcode") *)

RECURSIVE Flatten(_)
Flatten(ss) == IF ss = <<>> THEN <<>> ELSE Head(ss) \o Flatten(Tail(ss))

MatchingRows(l, right) == SelectSeq(right, LAMBDA r : r.Zipcode = l.Zipcode)

\* mutant: how="inner", the left rows without a match are dropped
merge_inner(left, right) ==
    Flatten([i \in DOMAIN left |->
        LET m == MatchingRows(left[i], right)
        IN  [j \in DOMAIN m |->
                [l |-> left[i], inc |-> m[j].Household_Median_Income]]])

\* every left row in order, once per matching right row (in the right
\* table's order), or once with NaN when nothing matches: the pairs
\* [l: the left row, inc: the right row's income]
merge_left(left, right) ==
    Flatten([i \in DOMAIN left |->
        LET m == MatchingRows(left[i], right)
        IN  IF m = <<>> THEN <<[l |-> left[i], inc |-> NaN]>>
            ELSE [j \in DOMAIN m |->
                     [l |-> left[i], inc |-> m[j].Household_Median_Income]]])

\* a row of df_analysis: the listing's columns and the income
AnalysisRow(l, inc) ==
    [Price |-> l.Price, Bedrooms |-> l.Bedrooms, Bathrooms |-> l.Bathrooms,
     SqFt |-> l.SqFt, Zipcode |-> l.Zipcode, Price_Per_SqFt |-> l.Price_Per_SqFt,
     Household_Median_Income |-> inc,
     Affordable_Price |-> Absent, Affordability_Gap |-> Absent]

----------------------------------------------------------------------------
(* calculate_house_affordabilty and the clamp *)

IncomeMultiple == 3

\* mutant: the gap taken as Price - Affordable_Price
house_affordabilty_swapped(df_analysis) ==
    [i \in DOMAIN df_analysis |->
        LET ap == Mul(df_analysis[i].Household_Median_Income, Num(IncomeMultiple))
        IN  [df_analysis[i] EXCEPT !.Affordable_Price = ap,
                                   !.Affordability_Gap = Sub(df_analysis[i].Price, ap)]]

calculate_house_affordabilty(df_analysis) ==
    [i \in DOMAIN df_analysis |->
        LET ap == Mul(df_analysis[i].Household_Median_Income, Num(IncomeMultiple))
        IN  [df_analysis[i] EXCEPT !.Affordable_Price = ap,
                                   !.Affordability_Gap = Sub(ap, df_analysis[i].Price)]]

\* mutant: the clamp left out
ClampNothing(gap) == gap

\* np.where(gap < 0, gap, 0)
ClampGap(gap) == IF Less(gap, Num(0)) THEN gap ELSE Num(0)

----------------------------------------------------------------------------
(* zipcode_aggregates *)

RECURSIVE SortedInts(_)
SortedInts(S) ==
    IF S = {} THEN <<>>
    ELSE LET m == CHOOSE x \in S : \A y \in S : x <= y
         IN  <<m>> \o SortedInts(S \ {m})

RECURSIVE InsertSorted(_, _)
InsertSorted(c, s) ==
    IF s = <<>> THEN <<c>>
    ELSE IF Less(c, Head(s)) THEN <<c>> \o s
    ELSE <<Head(s)>> \o InsertSorted(c, Tail(s))

RECURSIVE SortCells(_)
SortCells(s) == IF s = <<>> THEN <<>> ELSE InsertSorted(Head(s), SortCells(Tail(s)))

\* the non-null prices of the rows of one zipcode, ascending
GroupPrices(df, z) ==
    LET rows == SelectSeq(df, LAMBDA r : r.Zipcode = Num(z) /\ IsNum(r.Price))
    IN  SortCells([i \in DOMAIN rows |-> rows[i].Price])

Median(p) ==
    IF p = <<>> THEN NaN
    ELSE IF Len(p) % 2 = 1 THEN p[(Len(p) + 1) \div 2]
    ELSE Div(Sub(p[Len(p) \div 2], Sub(Num(0), p[Len(p) \div 2 + 1])), Num(2))

\* df.groupby("Zipcode").agg(min, max, median).reset_index(): one row per
\* zipcode, ascending
GroupByZipcode(df) ==
    LET keys == SortedInts({df[i].Zipcode.n : i \in DOMAIN df})
    IN  [j \in DOMAIN keys |->
            LET p == GroupPrices(df, keys[j])
            IN  [Zipcode |-> Num(keys[j]),
                 Min_Price |-> IF p = <<>> THEN NaN ELSE p[1],
                 Max_Price |-> IF p = <<>> THEN NaN ELSE p[Len(p)],
                 Median_Price |-> Median(p)]]

\* round(x, 1) of a float (ties to even); NaN and inf stay
Round1(c) ==
    IF ~IsNum(c) THEN c
    ELSE LET q == (10 * c.n) \div c.d
             r == 10 * c.n - q * c.d
         IN  IF 2 * r < c.d THEN Rat(q, 10)
             ELSE IF 2 * r > c.d THEN Rat(q + 1, 10)
             ELSE Rat(IF q % 2 = 0 THEN q ELSE q + 1, 10)

UnaffordableMultiple == 3

\* mutant: Min_Price >= 3 x income (not less) in place of >
AggRowNotLess(g, inc) ==
    [Zipcode |-> g.Zipcode, Min_Price |-> g.Min_Price, Max_Price |-> g.Max_Price,
     Median_Price |-> g.Median_Price, Household_Median_Income |-> inc,
     HPI |-> Round1(Div(g.Median_Price, inc)),
     Unaffordable |-> ~Less(g.Min_Price, Mul(inc, Num(UnaffordableMultiple)))]

AggRow(g, inc) ==
    [Zipcode |-> g.Zipcode, Min_Price |-> g.Min_Price, Max_Price |-> g.Max_Price,
     Median_Price |-> g.Median_Price, Household_Median_Income |-> inc,
     HPI |-> Round1(Div(g.Median_Price, inc)),
     Unaffordable |-> Greater(g.Min_Price, Mul(inc, Num(UnaffordableMultiple)))]

zipcode_aggregates(df, df_income) ==
    LET m == merge_left(GroupByZipcode(df), df_income)
    IN  [i \in DOMAIN m |-> AggRow(m[i].l, m[i].inc)]

----------------------------------------------------------------------------
(* calculate_affordability_metrics *)

ClampGaps(df) ==
    [i \in DOMAIN df |-> [df[i] EXCEPT !.Affordability_Gap = ClampGap(@)]]

\* status; housing and income: the caller's tables afterwards; zip and
\* house: the two returned tables
calculate_affordability_metrics(df_housing, df_income, onNumber) ==
    LET h == preprocess_scraped_listings(df_housing, onNumber)
        n == preprocess_income_data(df_income)
        m == merge_left(h.out, n.out)
        df_analysis == [i \in DOMAIN m |-> AnalysisRow(m[i].l, m[i].inc)]
    IN  IF h.status = "error"
        THEN [status |-> "error", housing |-> h.df, income |-> df_income,
              zip |-> <<>>, house |-> <<>>]
        ELSE IF n.status = "error"
        THEN [status |-> "error", housing |-> h.df, income |-> n.df,
              zip |-> <<>>, house |-> <<>>]
        ELSE [status |-> "ok", housing |-> h.df, income |-> n.df,
              zip |-> zipcode_aggregates(df_analysis, n.out),
              house |-> ClampGaps(calculate_house_affordabilty(df_analysis))]

----------------------------------------------------------------------------
(* The caller's inputs *)

ListingRow(price, bed, bath, sqft, zip) ==
    [Price |-> Text(price), Bedrooms |-> Text(bed), Bathrooms |-> Text(bath),
     SqFt |-> Text(sqft), Zipcode |-> Text(zip), Price_Per_SqFt |-> Absent]

IncomeRow(label, est) ==
    [Geographic_Area_Name |-> Text(label), Estimate_Median_Income |-> Text(est),
     Margin_of_Error |-> Text(<<"9">>), Zipcode |-> Absent]

\* the tables of 1 .. n rows drawn from S
Tables(S, n) == UNION {[1..m -> S] : m \in 1..n}

PriceTexts == {<<"$", "3">>, <<"$", "7">>}
ZipTexts == {<<"1">>, <<"2">>}
BadText == <<"x">>

\* scraped listings, well-formed: two prices in two zipcodes
ListingRows ==
    {ListingRow(p, <<"3">>, <<"2">>, <<"1", ",", "0">>, z) : p \in PriceTexts, z \in ZipTexts}

\* a well-formed listing, and listings with one malformed field
ListingRowsMalformed ==
    {ListingRow(<<"$", "3">>, <<"3">>, <<"2">>, <<"1", ",", "0">>, <<"1">>),
     ListingRow(<<"$", "3">>, BadText, <<"2">>, <<"1", ",", "0">>, <<"1">>),
     ListingRow(<<"$", "3">>, <<"3">>, <<"2">>, BadText, <<"1">>),
     ListingRow(<<"$", "3">>, <<"3">>, <<"2">>, <<"1", ",", "0">>, BadText)}

\* every combination of field values, for the listing normalizer alone
ListingRowsFull ==
    {ListingRow(p, b, a, s, z) :
        p \in {<<"$", "7">>}, b \in {<<"3">>, BadText}, a \in {<<"2">>, BadText},
        s \in {<<"1", ",", "0">>, <<"0">>, BadText}, z \in {<<"1">>, BadText}}

Labels == {<<"Z", " ", "1">>, <<"Z", " ", "2">>}

\* census rows, well-formed: incomes 1 and 2 (the latter with the
\* open-bucket mark) in two zipcodes, and a no-data row
IncomeRows ==
    {IncomeRow(l, e) : l \in Labels, e \in {<<"1">>, <<"2", "+">>}}
    \cup {IncomeRow(<<"Z", " ", "1">>, <<"-">>)}

\* a well-formed row, a no-data row, and rows with a malformed income or label
IncomeRowsMalformed ==
    {IncomeRow(<<"Z", " ", "1">>, <<"1">>),
     IncomeRow(<<"Z", " ", "1">>, <<"-">>),
     IncomeRow(<<"Z", " ", "1">>, BadText),
     IncomeRow(<<"Z", " ">>, <<"1">>)}

\* every combination of label and income text, for the income normalizer alone
IncomeRowsFull ==
    {IncomeRow(l, e) :
        l \in {<<"Z", " ", "1">>, <<"Z", " ", "2">>, <<"Z">>, <<" ">>},
        e \in {<<"-">>, <<"1">>, <<"1", ",", "0">>, <<"2", "+">>, <<"-", "2">>,
               <<"-", "-">>, BadText}}

----------------------------------------------------------------------------
(* The calls *)

Ret(op, status, out, zip, house) ==
    [op |-> op, status |-> status, out |-> out, zip |-> zip, house |-> house]

InitWith(H, I) ==
    /\ housing \in H
    /\ income \in I
    /\ orig = [housing |-> housing, income |-> income]
    /\ rets = <<>>

CallPreprocessListings ==
    /\ Len(rets) < MaxCalls
    /\ \E onNumber \in FormatPriceOnNumber :
        LET r == preprocess_scraped_listings(housing, onNumber)
        IN  /\ housing' = r.df
            /\ rets' = Append(rets, Ret("preprocess_scraped_listings", r.status, r.out, <<>>, <<>>))
    /\ UNCHANGED <<income, orig>>

CallPreprocessIncome ==
    /\ Len(rets) < MaxCalls
    /\ LET r == preprocess_income_data(income)
       IN  /\ income' = r.df
           /\ rets' = Append(rets, Ret("preprocess_income_data", r.status, r.out, <<>>, <<>>))
    /\ UNCHANGED <<housing, orig>>

CallCalculate ==
    /\ Len(rets) < MaxCalls
    /\ \E onNumber \in FormatPriceOnNumber :
        LET r == calculate_affordability_metrics(housing, income, onNumber)
        IN  /\ housing' = r.housing
            /\ income' = r.income
            /\ rets' = Append(rets, Ret("calculate_affordability_metrics", r.status, <<>>, r.zip, r.house))
    /\ UNCHANGED orig

\* the whole pipeline, called and called again on the caller's two tables
Init == InitWith(Tables(ListingRows, MaxListings), Tables(IncomeRows, MaxIncomes))
Next == CallCalculate
Spec == Init /\ [][Next]_vars

\* the whole pipeline on tables that hold malformed fields
InitMalformed ==
    InitWith(Tables(ListingRowsMalformed, MaxListings), Tables(IncomeRowsMalformed, MaxIncomes))
SpecMalformed == InitMalformed /\ [][Next]_vars

\* the listing normalizer alone
InitListings ==
    InitWith(Tables(ListingRowsFull, MaxListings), {<<IncomeRow(<<"Z", " ", "1">>, <<"1">>)>>})
NextListings == CallPreprocessListings
SpecListings == InitListings /\ [][NextListings]_vars

\* the income normalizer alone
InitIncome ==
    InitWith({<<ListingRow(<<"$", "3">>, <<"3">>, <<"2">>, <<"1", ",", "0">>, <<"1">>)>>},
             Tables(IncomeRowsFull, MaxIncomes))
NextIncome == CallPreprocessIncome
SpecIncome == InitIncome /\ [][NextIncome]_vars

----------------------------------------------------------------------------
(* What the claims read *)

Calc == "calculate_affordability_metrics"

\* the calls of the pipeline that returned its two tables
OkCalls == {i \in DOMAIN rets : rets[i].op = Calc /\ rets[i].status = "ok"}

\* raw inputs that the normalizers cannot convert
BadSqFt(r) == r.SqFt.k = "text" /\ ~IsDigits(StripChars(r.SqFt.s, {","}))
BadZipcode(r) == r.Zipcode.k = "text" /\ ~IsDigits(r.Zipcode.s)
BadListing(r) == BadSqFt(r) \/ BadZipcode(r)
BadLabel(r) == ~IsDigits(LastToken(RStrip(r.Geographic_Area_Name.s)))
IsNoData(r) == r.Estimate_Median_Income = NoData
BadIncomeText(r) ==
    /\ ~IsNoData(r)
    /\ ~IsDigits(StripChars(r.Estimate_Median_Income.s, {",", "+", "-"}))
BadIncome(r) == BadLabel(r) \/ BadIncomeText(r)

AnyBadListing(df) == \E i \in DOMAIN df : BadListing(df[i])
AnyBadLabel(df) == \E i \in DOMAIN df : BadLabel(df[i])
AnyBadIncomeText(df) == \E i \in DOMAIN df : BadIncomeText(df[i])
AnyBadIncome(df) == AnyBadLabel(df) \/ AnyBadIncomeText(df)

\* the digits of a text, read as a number: its face value
FaceValue(s) == Num(ParseNat(SelectSeq(s, LAMBDA c : c \in Digits)))

LabelZip(r) == Num(ParseNat(LastToken(RStrip(r.Geographic_Area_Name.s))))

\* the raw income rows that carry an income, in the table's order
DataRows(raw) == SelectSeq(raw, LAMBDA r : ~IsNoData(r))

\* the normalized income table of the caller's raw income table
Normalized == preprocess_income_data(orig.income).out

UniqueZips(df) ==
    \A i, j \in DOMAIN df : df[i].Zipcode = df[j].Zipcode => i = j

\* the number of rows of the income table N for zipcode z
Matches(N, z) == Cardinality({k \in DOMAIN N : N[k].Zipcode = z})

RECURSIVE SumSeq(_)
SumSeq(s) == IF s = <<>> THEN 0 ELSE Head(s) + SumSeq(Tail(s))

MinOf(S) == CHOOSE x \in S : \A y \in S : x <= y

----------------------------------------------------------------------------
(* Claims *)

\* C1: every row of the per-listing output has an Affordability_Gap that is
\* a number <= 0, whatever the price and the income, null income included.
C1_GapNeverPositive ==
    \A i \in OkCalls : \A j \in DOMAIN rets[i].house :
        LET g == rets[i].house[j].Affordability_Gap
        IN  IsNum(g) /\ g.n <= 0

C1_Witness ==
    \E i \in OkCalls : \E j, k \in DOMAIN rets[i].house :
        /\ rets[i].house[j].Household_Median_Income = NaN
        /\ rets[i].house[j].Affordability_Gap = Num(0)
        /\ IsNum(rets[i].house[k].Household_Median_Income)
        /\ rets[i].house[k].Affordability_Gap.n < 0

\* C2 (as claimed): a listing whose zipcode has no income row is kept in the
\* per-listing output, and its Household_Median_Income, Affordable_Price and
\* Affordability_Gap are all null there.
C2_NullIncomeFieldsAsClaimed ==
    LET N == Normalized
    IN  \A i \in OkCalls : \A l \in DOMAIN housing :
        Matches(N, housing[l].Zipcode) = 0 =>
            \E j \in DOMAIN rets[i].house :
                /\ rets[i].house[j].Zipcode = housing[l].Zipcode
                /\ rets[i].house[j].Price = housing[l].Price
                /\ rets[i].house[j].Household_Median_Income = NaN
                /\ rets[i].house[j].Affordable_Price = NaN
                /\ rets[i].house[j].Affordability_Gap = NaN

\* C3 (as claimed): for every raw income table the normalized income table
\* has at most one row per zipcode, and the per-listing output has exactly
\* one row per listing.
C3_OneIncomePerZipAsClaimed ==
    \A i \in OkCalls :
        UniqueZips(Normalized) /\ Len(rets[i].house) = Len(orig.housing)

\* C3 (amended): the normalized income table has one row per raw row that
\* carries an income, duplicates of a zipcode included; a listing appears
\* once per income row of its zipcode, and once if there is none.  When the
\* raw rows that carry an income have pairwise distinct zipcodes, the
\* normalized table has at most one row per zipcode and the per-listing
\* output has exactly one row per listing.
C3_OneIncomePerZipIfRawUnique ==
    LET N == Normalized
        data == DataRows(orig.income)
        zips == [a \in DOMAIN data |-> LabelZip(data[a])]
        n == [l \in DOMAIN housing |-> Matches(N, housing[l].Zipcode)]
    IN  \A i \in OkCalls :
            /\ Len(N) = Len(data)
            /\ Len(rets[i].house) =
                  SumSeq([l \in DOMAIN housing |-> IF n[l] = 0 THEN 1 ELSE n[l]])
            /\ (\A a, b \in DOMAIN data : zips[a] = zips[b] => a = b)
                => /\ UniqueZips(N)
                   /\ \A l \in DOMAIN housing : n[l] <= 1
                   /\ Len(rets[i].house) = Len(orig.housing)

C3_Witness ==
    LET N == Normalized
    IN  \E i \in OkCalls :
            /\ UniqueZips(N)
            /\ Len(orig.income) = 2
            /\ Len(N) = 1
            /\ Len(rets[i].house) = 2
            /\ \E l \in DOMAIN housing : Matches(N, housing[l].Zipcode) = 0
            /\ \E l \in DOMAIN housing : Matches(N, housing[l].Zipcode) = 1

\* C4 (as claimed): a call leaves the caller's raw listing table and raw
\* income table as they were.
C4_InputsUnchangedAsClaimed ==
    rets # <<>> => housing = orig.housing /\ income = orig.income

\* C5 (as claimed): the second call of the pipeline on the tables the first
\* call was given returns what the first call returned.
C5_RerunIdenticalAsClaimed ==
    Len(rets) >= 2 /\ rets[1].op = Calc /\ rets[2].op = Calc => rets[2] = rets[1]

\* C6: in a row with an income, the reported gap is 3 x income - Price when
\* that is negative, and 0 when it is zero or positive.
C6_GapIsClampedRawGap ==
    \A i \in OkCalls : \A j \in DOMAIN rets[i].house :
        LET r == rets[i].house[j]
            raw == 3 * r.Household_Median_Income.n - r.Price.n
        IN  IsNum(r.Household_Median_Income) =>
                /\ r.Household_Median_Income.d = 1 /\ r.Price.d = 1
                /\ r.Affordability_Gap = Num(IF raw < 0 THEN raw ELSE 0)

C6_Witness ==
    \E i \in OkCalls : \E a, b, c \in DOMAIN rets[i].house :
        LET raw(j) == 3 * rets[i].house[j].Household_Median_Income.n
                        - rets[i].house[j].Price.n
        IN  /\ \A j \in {a, b, c} : IsNum(rets[i].house[j].Household_Median_Income)
            /\ raw(a) < 0 /\ rets[i].house[a].Affordability_Gap = Num(raw(a))
            /\ raw(b) = 0 /\ rets[i].house[b].Affordability_Gap = Num(0)
            /\ raw(c) > 0 /\ rets[i].house[c].Affordability_Gap = Num(0)

C10_MalformedInputAborts ==
    /\ preprocess_scraped_listings(orig.housing, "same").status = "error"
          <=> AnyBadListing(orig.housing)
    /\ preprocess_income_data(orig.income).status = "error"
          <=> AnyBadIncome(orig.income)
    /\ rets # <<>> =>
          (rets[1].status = "error"
              <=> AnyBadListing(orig.housing) \/ AnyBadIncome(orig.income))
    /\ \A i \in DOMAIN rets :
          rets[i].status = "error" => rets[i].zip = <<>> /\ rets[i].house = <<>>

C10_Witness ==
    /\ rets # <<>>
    /\ rets[1].status = "error"
    /\ ~AnyBadListing(orig.housing)
    /\ AnyBadLabel(orig.income)
    /\ ~AnyBadIncomeText(orig.income)

----------------------------------------------------------------------------
(* Claims about one normalizer *)

\* C7: preprocess_income_data returns a table exactly when every label ends
\* in a number and every income text other than "-" is numeric once "," "+"
\* and "-" are removed: a "-" row never makes it raise.  The table holds the
\* rows other than the "-" rows, in order, each with the face value of its
\* income text.
C7_NoDataDroppedOthersKept ==
    \A i \in DOMAIN rets :
        /\ rets[i].status = "ok" <=> ~AnyBadIncome(orig.income)
        /\ rets[i].status = "ok" =>
              LET data == DataRows(orig.income)
              IN  rets[i].out =
                    [j \in DOMAIN data |->
                        [Household_Median_Income |->
                            FaceValue(data[j].Estimate_Median_Income.s),
                         Zipcode |-> LabelZip(data[j])]]

C7_Witness ==
    \E i \in DOMAIN rets :
        /\ rets[i].status = "ok"
        /\ Len(orig.income) = 2
        /\ IsNoData(orig.income[1])
        /\ orig.income[2].Estimate_Median_Income = Text(<<"1", ",", "0">>)
        /\ Len(rets[i].out) = 1
        /\ rets[i].out[1].Household_Median_Income = Num(10)

\* C9: preprocess_scraped_listings raises exactly when a SqFt or a Zipcode is
\* malformed, whatever Bedrooms and Bathrooms hold.  In the table it returns
\* every row is kept, a Bedrooms or Bathrooms text that is no number is NaN
\* in that cell, and the other cells hold their parsed values.
C9_BadRoomCountBecomesNull ==
    /\ rets # <<>> =>
          (rets[1].status = "ok" <=> ~AnyBadListing(orig.housing))
    /\ \A i \in DOMAIN rets :
          rets[i].status = "ok" =>
              /\ Len(rets[i].out) = Len(orig.housing)
              /\ \A j \in DOMAIN rets[i].out :
                    LET raw == orig.housing[j]
                        row == rets[i].out[j]
                        rooms(c) == IF IsDigits(c.s) THEN FaceValue(c.s) ELSE NaN
                    IN  /\ row.Bedrooms = rooms(raw.Bedrooms)
                        /\ row.Bathrooms = rooms(raw.Bathrooms)
                        /\ row.Price = FaceValue(raw.Price.s)
                        /\ row.SqFt = FaceValue(raw.SqFt.s)
                        /\ row.Zipcode = FaceValue(raw.Zipcode.s)

C9_Witness ==
    \E i \in DOMAIN rets :
        /\ rets[i].status = "ok"
        /\ Len(rets[i].out) = 2
        /\ orig.housing[1].Bedrooms = Text(BadText)
        /\ rets[i].out[1].Bedrooms = NaN
        /\ rets[i].out[1].Bathrooms = Num(2)
        /\ rets[i].out[2].Bedrooms = Num(3)
        /\ rets[i].out[2].Bathrooms = NaN

=============================================================================
